---- MODULE Spec2Model ----
(***************************************************************************)
(* THE FINALS active watcher: the fetcher (main.py) writes one JSON        *)
(* snapshot per run, the analyzer (analyze_activity.py) reads every        *)
(* snapshot of the folder, sorts them by timestamp and reports the pairs   *)
(* of consecutive snapshots between which rankScore or cashouts changed.   *)
(***************************************************************************)
EXTENDS Integers, Sequences, FiniteSets, TLC

(***************************************************************************)
(* Bounds of the model.                                                    *)
(***************************************************************************)
\* Fetcher processes that may run side by side.
NumRuns == 2
\* The wall clock counts ticks 0..MaxClock.
MaxClock == 3
\* Clock ticks in one second: strftime("%S") drops them, isoformat() keeps them.
TicksPerSecond == 2
\* Snapshot files in the folder the analyzer starts from.
MaxFiles == 3

(***************************************************************************)
(* Python / JSON values.  Every value carries its type in field t, so that *)
(* None, 0, "", [] and {} stay different values with the same truth value. *)
(***************************************************************************)
None == [t |-> "null"]
JInt(n) == [t |-> "int", v |-> n]
JStr(s) == [t |-> "str", v |-> s]
JArr(s) == [t |-> "arr", v |-> s]
JObj(f) == [t |-> "obj", v |-> f]
EmptyDict == JObj(<<>>)

\* bool(x) as Python's `if x:` computes it.
Truthy(x) ==
    CASE x.t = "null" -> FALSE
      [] x.t = "int" -> x.v # 0
      [] x.t = "str" -> x.v # ""
      [] x.t = "arr" -> Len(x.v) > 0
      [] x.t = "obj" -> DOMAIN x.v # {}

\* d.get(k, default) on a dict.
Get(d, k, default) == IF k \in DOMAIN d.v THEN d.v[k] ELSE default

(***************************************************************************)
(* json.dump / json.load.  The text of a file is a sequence of tokens:     *)
(* punctuation, null, a sign, decimal digits, and a string as the three    *)
(* tokens quote, content, quote.  Whitespace (indent=2) carries no         *)
(* information and is left out.                                            *)
(***************************************************************************)
DigitChar == <<"0", "1", "2", "3", "4", "5", "6", "7", "8", "9">>
DigitSet == {DigitChar[i] : i \in 1..10}
DigitValue(c) == (CHOOSE i \in 1..10 : DigitChar[i] = c) - 1
Quote == "\""

\* The keys of the file format, in the order the writers insert them.
KeyOrder ==
    <<"keyword", "timestamp", "season", "ranked_leaderboard", "world_tour",
      "count", "data", "rank", "change", "name", "league", "rankScore",
      "cashouts", "clubTag">>
KeysOf(f) == SelectSeq(KeyOrder, LAMBDA k : k \in DOMAIN f)

RECURSIVE Digits(_)
Digits(n) ==
    IF n < 10 THEN <<DigitChar[n + 1]>>
    ELSE Digits(n \div 10) \o <<DigitChar[(n % 10) + 1]>>

DumpInt(n) == IF n < 0 THEN <<"-">> \o Digits(-n) ELSE Digits(n)

RECURSIVE JsonDump(_), DumpItems(_), DumpMembers(_, _)
JsonDump(x) ==
    CASE x.t = "null" -> <<"null">>
      [] x.t = "int" -> DumpInt(x.v)
      [] x.t = "str" -> <<Quote, x.v, Quote>>
      [] x.t = "arr" -> <<"[">> \o DumpItems(x.v) \o <<"]">>
      [] x.t = "obj" -> <<"{">> \o DumpMembers(x.v, KeysOf(x.v)) \o <<"}">>
DumpItems(s) ==
    IF Len(s) = 0 THEN <<>>
    ELSE IF Len(s) = 1 THEN JsonDump(s[1])
    ELSE JsonDump(s[1]) \o <<",">> \o DumpItems(Tail(s))
DumpMembers(f, ks) ==
    IF Len(ks) = 0 THEN <<>>
    ELSE LET one == <<Quote, ks[1], Quote, ":">> \o JsonDump(f[ks[1]])
         IN  IF Len(ks) = 1 THEN one
             ELSE one \o <<",">> \o DumpMembers(f, Tail(ks))

\* A parse step's outcome: the value read and the position after it, or a failure
\* (json.JSONDecodeError).
ParseFail == [ok |-> FALSE, val |-> None, pos |-> 0]
ParseOk(v, p) == [ok |-> TRUE, val |-> v, pos |-> p]
Tok(s, i) == IF i <= Len(s) THEN s[i] ELSE "<eof>"

RECURSIVE ParseDigits(_, _, _)
ParseDigits(s, i, acc) ==
    IF Tok(s, i) \in DigitSet
    THEN ParseDigits(s, i + 1, acc * 10 + DigitValue(s[i]))
    ELSE ParseOk(JInt(acc), i)

RECURSIVE ParseValue(_, _), ParseItems(_, _, _), ParseMembers(_, _, _)
\* After the element e of an array: a comma and the rest, or the closing bracket.
AfterItem(s, e, acc) ==
    IF ~e.ok THEN ParseFail
    ELSE IF Tok(s, e.pos) = "," THEN ParseItems(s, e.pos + 1, Append(acc, e.val))
    ELSE IF Tok(s, e.pos) = "]" THEN ParseOk(JArr(Append(acc, e.val)), e.pos + 1)
    ELSE ParseFail
\* After the value e of the member `key` of an object: a comma and the rest, or the
\* closing brace.  A repeated key keeps its last value.
AfterMember(s, key, e, acc) ==
    IF ~e.ok THEN ParseFail
    ELSE IF Tok(s, e.pos) = "," THEN ParseMembers(s, e.pos + 1, (key :> e.val) @@ acc)
    ELSE IF Tok(s, e.pos) = "}" THEN ParseOk(JObj((key :> e.val) @@ acc), e.pos + 1)
    ELSE ParseFail
Negated(d) == ParseOk(JInt(0 - d.val.v), d.pos)
ParseValue(s, i) ==
    CASE Tok(s, i) = "null" -> ParseOk(None, i + 1)
      [] Tok(s, i) = Quote ->
            IF Tok(s, i + 2) = Quote THEN ParseOk(JStr(s[i + 1]), i + 3)
            ELSE ParseFail
      [] Tok(s, i) = "-" ->
            IF Tok(s, i + 1) \in DigitSet THEN Negated(ParseDigits(s, i + 1, 0))
            ELSE ParseFail
      [] Tok(s, i) \in DigitSet -> ParseDigits(s, i, 0)
      [] Tok(s, i) = "[" ->
            IF Tok(s, i + 1) = "]" THEN ParseOk(JArr(<<>>), i + 2)
            ELSE ParseItems(s, i + 1, <<>>)
      [] Tok(s, i) = "{" ->
            IF Tok(s, i + 1) = "}" THEN ParseOk(EmptyDict, i + 2)
            ELSE ParseMembers(s, i + 1, <<>>)
      [] OTHER -> ParseFail
ParseItems(s, i, acc) == AfterItem(s, ParseValue(s, i), acc)
ParseMembers(s, i, acc) ==
    IF Tok(s, i) = Quote /\ Tok(s, i + 2) = Quote /\ Tok(s, i + 3) = ":"
    THEN AfterMember(s, s[i + 1], ParseValue(s, i + 4), acc)
    ELSE ParseFail

\* json.load: one value, and nothing after it.
JsonLoad(s) ==
    LET r == ParseValue(s, 1)
    IN  IF r.ok /\ r.pos = Len(s) + 1 THEN r ELSE ParseFail

(***************************************************************************)
(* Wall clock formatting.                                                  *)
(***************************************************************************)
\* datetime.now().strftime("%Y%m%d_%H%M%S"): the whole seconds of the clock.  The
\* file name result_<stamp>.json is modelled by its stamp.
strftime_minutes(now) == now \div (TicksPerSecond * 60)
strftime(now) == now \div TicksPerSecond

SecText == <<"2025-01-01T00:00:00", "2025-01-01T00:00:01", "2025-01-01T00:00:02",
             "2025-01-01T00:00:03", "2025-01-01T00:00:04", "2025-01-01T00:00:05">>
\* The fraction of the second at each tick after the first, in increasing order.
FracText == <<"", ".250000", ".500000", ".750000">>
\* datetime.now().isoformat(): seconds, then the fraction unless it is zero.
isoformat(now) ==
    SecText[(now \div TicksPerSecond) + 1] \o FracText[(now % TicksPerSecond) + 1]

\* The position of a timestamp string in lexicographic order, which is how
\* list.sort compares the keys: "" (no timestamp in the file) sorts first.
IsoRank(s) ==
    IF s = "" THEN 0 - 1
    ELSE CHOOSE n \in 0..(Len(SecText) * TicksPerSecond - 1) : isoformat(n) = s

(***************************************************************************)
(* State.                                                                  *)
(***************************************************************************)
VARIABLES
    keyword,           \* SEARCH_KEYWORD
    api,               \* the leaderboard service's behaviour: "any", "up" or "matching"
    clock,             \* the wall clock, in ticks
    pc,                \* where each fetcher run stands in main()
    started,           \* the clock when each run entered main()
    ranked_data,       \* main's ranked_data of each run
    world_tour_data,   \* main's world_tour_data of each run
    named_at,          \* the clock save_results_to_file read at line 94, for each run
    trace,             \* the network calls and file writes of each run, in order
    disk,              \* the folder: file name -> text of the file
    written,           \* every write to the folder so far: <<file name, run>>
    apc,               \* where the analyzer stands in analyze_activity()
    files,             \* analyze_activity's files
    fidx,              \* the position of the load loop in files
    all_data,          \* analyze_activity's all_data
    warnings,          \* the files load_result_file warned about
    prev_data,         \* analyze_activity's prev_data
    didx,              \* the position of the scan loop in all_data
    rows,              \* the table rows printed so far
    activity_periods,  \* analyze_activity's activity_periods
    report,            \* the figures the summary printed
    earlier            \* what the analyzer's run before this one printed, if any

fvars == <<keyword, api, clock, pc, started, ranked_data, world_tour_data, named_at,
           trace, disk, written>>
avars == <<apc, files, fidx, all_data, warnings, prev_data, didx, rows,
           activity_periods, report, earlier>>
vars == <<fvars, avars>>

Runs == 1..NumRuns

(***************************************************************************)
(* The fetcher, main.py.                                                   *)
(***************************************************************************)
CURRENT_SEASON == "s9"

\* A leaderboard answer: {"count": n, "data": [...]}.
Response(players) == JObj([count |-> JInt(Len(players)), data |-> JArr(players)])

\* `a > b`, `a >= b` on Python values: a TypeError unless both are numbers.
Comparable(a, b) == a.t = "int" /\ b.t = "int"

\* format_cashout: the branch taken, or the TypeError of its first comparison.
format_cashout(cashout) ==
    IF ~Comparable(cashout, JInt(1000000)) THEN "TypeError"
    ELSE IF cashout.v >= 1000000 THEN "M"
    ELSE IF cashout.v >= 1000 THEN "K"
    ELSE "plain"

\* One pass of display_ranked_results' loop body: "ok", or the exception raised.
ranked_row(player) ==
    LET change == Get(player, "change", JInt(0))
    IN  IF Comparable(change, JInt(0)) THEN "ok" ELSE "TypeError"

\* One pass of display_world_tour_results' loop body.
world_tour_row(player) ==
    LET cashouts == Get(player, "cashouts", JInt(0))
    IN  IF format_cashout(cashouts) = "TypeError" THEN "TypeError" ELSE "ok"

\* display_ranked_results: "ok" when it returns, else the exception that leaves it.
display_ranked_results(data) ==
    IF "count" \notin DOMAIN data.v THEN "KeyError"
    ELSE IF data.v["count"] = JInt(0) THEN "ok"
    ELSE IF "data" \notin DOMAIN data.v THEN "KeyError"
    ELSE IF \E i \in 1..Len(data.v["data"].v) : ranked_row(data.v["data"].v[i]) # "ok"
         THEN "TypeError"
         ELSE "ok"

\* display_world_tour_results, likewise.
display_world_tour_results(data) ==
    IF "count" \notin DOMAIN data.v THEN "KeyError"
    ELSE IF data.v["count"] = JInt(0) THEN "ok"
    ELSE IF "data" \notin DOMAIN data.v THEN "KeyError"
    ELSE IF \E i \in 1..Len(data.v["data"].v) : world_tour_row(data.v["data"].v[i]) # "ok"
         THEN "TypeError"
         ELSE "ok"

\* save_results_to_file's result_data.
result_data_swapped(ranked, world, kw, now) ==
    JObj([keyword |-> JStr(kw),
          timestamp |-> JStr(isoformat(now)),
          season |-> JStr(CURRENT_SEASON),
          ranked_leaderboard |-> world,
          world_tour |-> ranked])
result_data(ranked, world, kw, now) ==
    JObj([keyword |-> JStr(kw),
          timestamp |-> JStr(isoformat(now)),
          season |-> JStr(CURRENT_SEASON),
          ranked_leaderboard |-> ranked,
          world_tour |-> world])

(***************************************************************************)
(* What the leaderboard service may answer (response.json(), or None when  *)
(* requests raises).                                                       *)
(***************************************************************************)
\* A dict without one of its keys.
Without(d, k) == JObj([x \in DOMAIN d.v \ {k} |-> d.v[x]])

RankedPlayer(rank, change, score) ==
    JObj([rank |-> JInt(rank), change |-> change, name |-> JStr("sangwoo#1234"),
          league |-> JStr("Diamond 1"), rankScore |-> score, clubTag |-> JStr("FIN")])

WorldTourPlayer(rank, cashouts) ==
    JObj([rank |-> JInt(rank), name |-> JStr("sangwoo#1234"), cashouts |-> cashouts,
          clubTag |-> JStr("")])

AnyRanked ==
    {None,
     Response(<<>>),
     Response(<<RankedPlayer(12, JInt(5), JInt(1200))>>),
     Response(<<RankedPlayer(40, JInt(0 - 3), JInt(0))>>),
     Response(<<RankedPlayer(12, JInt(0), JInt(1000)), RankedPlayer(77, JInt(2), JInt(900))>>),
     Response(<<Without(RankedPlayer(12, JInt(5), JInt(1200)), "change")>>),
     Response(<<Without(RankedPlayer(12, JInt(5), JInt(1200)), "rankScore")>>),
     Response(<<RankedPlayer(12, None, JInt(1200))>>)}

AnyWorldTour ==
    {None,
     Response(<<>>),
     Response(<<WorldTourPlayer(3, JInt(500))>>),
     Response(<<WorldTourPlayer(3, JInt(1500000)), WorldTourPlayer(9, JInt(0))>>),
     Response(<<Without(WorldTourPlayer(3, JInt(500)), "cashouts")>>),
     Response(<<WorldTourPlayer(3, None)>>)}

\* Answers with a match and every field an integer, as the service gives them
\* when it is up.
GoodRanked == Response(<<RankedPlayer(12, JInt(5), JInt(1200))>>)
GoodWorldTour == Response(<<WorldTourPlayer(3, JInt(500))>>)

\* The answers of the service behaving as `behaviour`: "any" answer of the above,
\* "up" (one well-formed match, every time), or "matching" (well-formed matches).
RankedAnswers(behaviour) ==
    CASE behaviour = "any" -> AnyRanked
      [] behaviour = "up" -> {GoodRanked}
      [] behaviour = "matching" ->
            {Response(<<RankedPlayer(rank, JInt(0), JInt(score))>>) :
                rank \in {1, 12}, score \in {0, 1200}}
            \cup {Response(<<RankedPlayer(12, JInt(0 - 3), JInt(1000)),
                             RankedPlayer(77, JInt(2), JInt(900))>>)}

WorldTourAnswers(behaviour) ==
    CASE behaviour = "any" -> AnyWorldTour
      [] behaviour = "up" -> {GoodWorldTour}
      [] behaviour = "matching" ->
            {Response(<<WorldTourPlayer(rank, JInt(cash))>>) :
                rank \in {3, 250}, cash \in {0, 1500000}}
            \cup {Response(<<WorldTourPlayer(3, JInt(500)), WorldTourPlayer(9, JInt(0))>>)}

\* main() up to the first network call: the keyword check.
Start(r) ==
    /\ pc[r] = "idle"
    /\ started' = [started EXCEPT ![r] = clock]
    /\ pc' = [pc EXCEPT ![r] = IF keyword = "" THEN "done" ELSE "ranked"]
    /\ UNCHANGED <<keyword, api, clock, ranked_data, world_tour_data, named_at, trace,
                   disk, written>>
    /\ UNCHANGED avars

\* search_player_in_leaderboard, then display_ranked_results if the answer is truthy.
FetchRanked(r) ==
    /\ pc[r] = "ranked"
    /\ \E resp \in RankedAnswers(api) :
        /\ ranked_data' = [ranked_data EXCEPT ![r] = resp]
        /\ pc' = [pc EXCEPT ![r] =
                    IF Truthy(resp) /\ display_ranked_results(resp) # "ok"
                    THEN "crashed" ELSE "world"]
    /\ trace' = [trace EXCEPT ![r] = Append(@, "get_ranked")]
    /\ UNCHANGED <<keyword, api, clock, started, world_tour_data, named_at, disk, written>>
    /\ UNCHANGED avars

\* search_player_in_world_tour, then display_world_tour_results if the answer is truthy.
FetchWorldTour(r) ==
    /\ pc[r] = "world"
    /\ \E resp \in WorldTourAnswers(api) :
        /\ world_tour_data' = [world_tour_data EXCEPT ![r] = resp]
        /\ pc' = [pc EXCEPT ![r] =
                    IF Truthy(resp) /\ display_world_tour_results(resp) # "ok"
                    THEN "crashed" ELSE "save"]
    /\ trace' = [trace EXCEPT ![r] = Append(@, "get_world_tour")]
    /\ UNCHANGED <<keyword, api, clock, started, ranked_data, named_at, disk, written>>
    /\ UNCHANGED avars

\* save_results_to_file's json_filename: result_<timestamp>.json, the timestamp
\* formatted from the clock read at line 94.
json_filename(r) == strftime(named_at[r])

\* save_results_to_file, lines 94-97: the file name from the clock.
SaveName(r) ==
    /\ pc[r] = "save"
    /\ named_at' = [named_at EXCEPT ![r] = clock]
    /\ pc' = [pc EXCEPT ![r] = "write"]
    /\ UNCHANGED <<keyword, api, clock, started, ranked_data, world_tour_data, trace,
                   disk, written>>
    /\ UNCHANGED avars

\* save_results_to_file, lines 98-109: the clock again, open(..., "w") and json.dump;
\* then main returns.
SaveWrite(r) ==
    /\ pc[r] = "write"
    /\ disk' = (json_filename(r) :>
                   JsonDump(result_data(ranked_data[r], world_tour_data[r], keyword, clock)))
               @@ disk
    /\ written' = Append(written, <<json_filename(r), r>>)
    /\ trace' = [trace EXCEPT ![r] = Append(@, "write")]
    /\ pc' = [pc EXCEPT ![r] = "done"]
    /\ UNCHANGED <<keyword, api, clock, started, ranked_data, world_tour_data, named_at>>
    /\ UNCHANGED avars

\* Time passes.
Tick ==
    /\ clock < MaxClock
    /\ clock' = clock + 1
    /\ UNCHANGED <<keyword, api, pc, started, ranked_data, world_tour_data, named_at,
                   trace, disk, written>>
    /\ UNCHANGED avars

(***************************************************************************)
(* The analyzer, analyze_activity.py.                                      *)
(***************************************************************************)
\* An exception leaving a function, as a value.
Raise(e) == [t |-> "raise", v |-> e]
Raised(x) == x.t = "raise"

\* load_result_file: the parsed file; on any failure a warning and None.
load_result_file_uncaught(text) ==
    LET r == JsonLoad(text)
    IN  [result |-> IF r.ok THEN r.val ELSE None, warned |-> FALSE, raised |-> ~r.ok]
load_result_file(text) ==
    LET r == JsonLoad(text)
    IN  [result |-> IF r.ok THEN r.val ELSE None, warned |-> ~r.ok, raised |-> FALSE]

\* lst[0].
First(lst) == IF Len(lst.v) >= 1 THEN lst.v[1] ELSE Raise("IndexError")

\* `section and section.get("data")`.
HasData_section_only(section) == Truthy(section)
HasData(section) == Truthy(section) /\ Truthy(Get(section, "data", None))

\* extract_player_data.
extract_player_data(result) ==
    LET ranked == Get(result, "ranked_leaderboard", EmptyDict)
        world_tour == Get(result, "world_tour", EmptyDict)
        rplayer == IF HasData(ranked) THEN First(ranked.v["data"]) ELSE EmptyDict
        wplayer == IF HasData(world_tour) THEN First(world_tour.v["data"]) ELSE EmptyDict
    IN  IF Raised(rplayer) THEN rplayer
        ELSE IF Raised(wplayer) THEN wplayer
        ELSE JObj([timestamp |-> Get(result, "timestamp", JStr("")),
                   rankScore |-> Get(rplayer, "rankScore", None),
                   rank |-> Get(rplayer, "rank", None),
                   cashouts |-> Get(wplayer, "cashouts", None),
                   worldTourRank |-> Get(wplayer, "rank", None),
                   playerName |-> Get(rplayer, "name", None)])

\* player_data["filename"] = ...
WithFilename(data, name) == JObj([k \in DOMAIN data.v \cup {"filename"} |->
                                    IF k = "filename" THEN JInt(name) ELSE data.v[k]])

\* sorted(glob.glob(pattern)): the names of the folder, ascending.
RECURSIVE SortedNames(_)
SortedNames(S) ==
    IF S = {} THEN <<>>
    ELSE LET least == CHOOSE n \in S : \A m \in S : n <= m
         IN  <<least>> \o SortedNames(S \ {least})

\* all_data.sort(key=lambda x: x["timestamp"]): stable, ascending in the key.
SortKey(x) == IsoRank(x.v["timestamp"].v)
RECURSIVE InsertByKey(_, _)
InsertByKey(sorted, x) ==
    IF Len(sorted) = 0 THEN <<x>>
    ELSE IF SortKey(sorted[Len(sorted)]) <= SortKey(x) THEN Append(sorted, x)
    ELSE Append(InsertByKey(SubSeq(sorted, 1, Len(sorted) - 1), x), sorted[Len(sorted)])
RECURSIVE sort_by_timestamp(_)
sort_by_timestamp(s) ==
    IF Len(s) = 0 THEN <<>>
    ELSE InsertByKey(sort_by_timestamp(SubSeq(s, 1, Len(s) - 1)), s[Len(s)])

\* Lines 144-157: the difference of a quantity between two records, 0 unless both
\* carry it.
diff(cur, prev) == IF cur # None /\ prev # None THEN cur.v - prev.v ELSE 0

\* Line 160: the activity test.
is_active_both(score_diff, cashout_diff) == score_diff # 0 /\ cashout_diff # 0
is_active(score_diff, cashout_diff) == score_diff # 0 \/ cashout_diff # 0

\* Lines 229 and 234: the test before an overall line is printed.
has_both(latest_value, first_value) == Truthy(latest_value) /\ Truthy(first_value)

\* Lines 195-205: the sum of one delta over the sessions.
RECURSIVE total_change(_, _)
total_change_skip_first(periods, field) ==
    IF Len(periods) <= 1 THEN 0
    ELSE total_change(SubSeq(periods, 1, Len(periods) - 1), field)
            + periods[Len(periods)][field]
total_change(periods, field) ==
    IF Len(periods) = 0 THEN 0
    ELSE total_change(SubSeq(periods, 1, Len(periods) - 1), field)
            + periods[Len(periods)][field]

\* Nothing printed yet.
NoReport ==
    [printed |-> FALSE, detected |-> 0, total_score_change |-> <<>>,
     total_cashout_change |-> <<>>, overall_rankScore |-> <<>>, overall_cashouts |-> <<>>]

\* Lines 86-97: the files of the folder; return if there are none.
Discover ==
    /\ apc = "start"
    /\ files' = SortedNames(DOMAIN disk)
    /\ apc' = IF Len(files') = 0 THEN "done" ELSE "load"
    /\ UNCHANGED <<fidx, all_data, warnings, prev_data, didx, rows, activity_periods,
                   report, earlier>>
    /\ UNCHANGED fvars

\* Lines 101-106: one pass of the load loop.
LoadNext ==
    /\ apc = "load"
    /\ fidx <= Len(files)
    /\ \E loaded \in {load_result_file(disk[files[fidx]])} :
       \E player_data \in {IF Truthy(loaded.result)
                            THEN extract_player_data(loaded.result) ELSE None} :
           /\ warnings' = IF loaded.warned THEN Append(warnings, files[fidx]) ELSE warnings
           /\ IF loaded.raised \/ Raised(player_data)
              THEN apc' = "crashed" /\ UNCHANGED all_data
              ELSE /\ apc' = apc
                   /\ all_data' = IF Truthy(loaded.result)
                                  THEN Append(all_data, WithFilename(player_data, files[fidx]))
                                  ELSE all_data
    /\ fidx' = fidx + 1
    /\ UNCHANGED <<files, prev_data, didx, rows, activity_periods, report, earlier>>
    /\ UNCHANGED fvars

\* Lines 108-126: return if nothing was loaded, else sort.
Sort ==
    /\ apc = "load"
    /\ fidx > Len(files)
    /\ IF Len(all_data) = 0
       THEN apc' = "done" /\ UNCHANGED all_data
       ELSE apc' = "scan" /\ all_data' = sort_by_timestamp(all_data)
    /\ UNCHANGED <<files, fidx, warnings, prev_data, didx, rows, activity_periods, report,
                   earlier>>
    /\ UNCHANGED fvars

\* What one pass of the scan loop computes from the record and prev_data.
scan(data, prev) ==
    LET rank_score == Get(data, "rankScore", None)
        cashouts == Get(data, "cashouts", None)
        score_diff == IF Truthy(prev) THEN diff(rank_score, Get(prev, "rankScore", None))
                      ELSE 0
        cashout_diff == IF Truthy(prev) THEN diff(cashouts, Get(prev, "cashouts", None))
                        ELSE 0
    IN  [rank_score |-> rank_score,
         cashouts |-> cashouts,
         score_diff |-> score_diff,
         cashout_diff |-> cashout_diff,
         status |-> IF Truthy(prev)
                    THEN IF is_active(score_diff, cashout_diff)
                         THEN "[ACTIVE] Playing" ELSE "[--] No change"
                    ELSE "[START] First"]

\* Lines 128-185: one pass of the scan loop.
ScanNext ==
    /\ apc = "scan"
    /\ didx <= Len(all_data)
    /\ \E data \in {all_data[didx]} :
       \E row \in {scan(data, prev_data)} :
           /\ rows' = Append(rows,
                        [timestamp |-> data.v["timestamp"],
                         rank_score |-> row.rank_score,
                         score_change |-> IF row.score_diff # 0
                                          THEN <<row.score_diff>> ELSE <<>>,
                         cashouts |-> row.cashouts,
                         cashout_change |-> IF row.cashout_diff # 0
                                            THEN <<row.cashout_diff>> ELSE <<>>,
                         status |-> row.status])
           /\ activity_periods' =
                IF row.status = "[ACTIVE] Playing"
                THEN Append(activity_periods,
                            [start |-> prev_data.v["timestamp"],
                             end |-> data.v["timestamp"],
                             score_change |-> row.score_diff,
                             cashout_change |-> row.cashout_diff])
                ELSE activity_periods
           /\ prev_data' = data
    /\ didx' = didx + 1
    /\ UNCHANGED <<apc, files, fidx, all_data, warnings, report, earlier>>
    /\ UNCHANGED fvars

\* Lines 187-239: the summary.
Summarize ==
    /\ apc = "scan"
    /\ didx > Len(all_data)
    /\ \E latest \in {all_data[Len(all_data)]}, first \in {all_data[1]},
          sessions \in {Len(activity_periods) > 0} :
           report' =
            [printed |-> TRUE,
             detected |-> Len(activity_periods),
             total_score_change |->
                IF sessions THEN <<total_change(activity_periods, "score_change")>> ELSE <<>>,
             total_cashout_change |->
                IF sessions THEN <<total_change(activity_periods, "cashout_change")>>
                ELSE <<>>,
             overall_rankScore |->
                IF has_both(Get(latest, "rankScore", None), Get(first, "rankScore", None))
                THEN <<latest.v["rankScore"].v - first.v["rankScore"].v>> ELSE <<>>,
             overall_cashouts |->
                IF has_both(Get(latest, "cashouts", None), Get(first, "cashouts", None))
                THEN <<latest.v["cashouts"].v - first.v["cashouts"].v>> ELSE <<>>]
    /\ apc' = "done"
    /\ UNCHANGED <<files, fidx, all_data, warnings, prev_data, didx, rows,
                   activity_periods, earlier>>
    /\ UNCHANGED fvars

AnalyzerStep == Discover \/ LoadNext \/ Sort \/ ScanNext \/ Summarize

(***************************************************************************)
(* Specifications of the fetcher.                                          *)
(***************************************************************************)
\* The analyzer is not running.
AnalyzerOff ==
    /\ apc = "off"
    /\ files = <<>>
    /\ fidx = 1
    /\ all_data = <<>>
    /\ warnings = <<>>
    /\ prev_data = None
    /\ didx = 1
    /\ rows = <<>>
    /\ activity_periods = <<>>
    /\ report = NoReport
    /\ earlier = <<>>

\* `launched` runs are about to enter main(); the folder is empty.
FetcherInit(launched, behaviour) ==
    /\ keyword \in {"", "sangwoo"}
    /\ api = behaviour
    /\ clock = 0
    /\ pc = [r \in Runs |-> IF r \in launched THEN "idle" ELSE "off"]
    /\ started = [r \in Runs |-> 0]
    /\ ranked_data = [r \in Runs |-> None]
    /\ world_tour_data = [r \in Runs |-> None]
    /\ named_at = [r \in Runs |-> 0]
    /\ trace = [r \in Runs |-> <<>>]
    /\ disk = <<>>
    /\ written = <<>>

FetcherStep(r) ==
    \/ Start(r)
    \/ FetchRanked(r)
    \/ FetchWorldTour(r)
    \/ SaveName(r)
    \/ SaveWrite(r)

\* One run of main.py against every answer of the service.
InitFetcher ==
    /\ FetcherInit({1}, "any")
    /\ AnalyzerOff
NextFetcher == Tick \/ FetcherStep(1)
SpecFetcher == InitFetcher /\ [][NextFetcher]_vars

\* Every run of main.py side by side, the service up.
InitConcurrent ==
    /\ FetcherInit(Runs, "up")
    /\ AnalyzerOff
NextConcurrent == Tick \/ \E r \in Runs : FetcherStep(r)
SpecConcurrent == InitConcurrent /\ [][NextConcurrent]_vars

(***************************************************************************)
(* Claims about the fetcher.                                               *)
(***************************************************************************)
Range(f) == {f[x] : x \in DOMAIN f}

\* The run has left main(): by return, or by an exception nobody catches.
Finished(r) == pc[r] \in {"done", "crashed"}
WritesOf(r) == Len(SelectSeq(written, LAMBDA w : w[2] = r))
SnapshotOf(r) == JsonLoad(disk[json_filename(r)]).val

\* C2: a run with a non-empty keyword ends having written exactly one snapshot,
\* whose ranked_leaderboard and world_tour are what the two fetches returned (the
\* response, or null for a failed fetch), whatever the outcomes of the two fetches.
C2_SnapshotWhateverTheFetches ==
    \A r \in Runs :
        (keyword # "" /\ Finished(r)) =>
            /\ WritesOf(r) = 1
            /\ json_filename(r) \in DOMAIN disk
            /\ SnapshotOf(r).v["ranked_leaderboard"] = ranked_data[r]
            /\ SnapshotOf(r).v["world_tour"] = world_tour_data[r]

\* C8: a run that has ended has made no call and no write (empty keyword), or the
\* ranked call, then the world tour call, then one write.
C8_TwoTraces ==
    \A r \in Runs :
        Finished(r) =>
            \/ keyword = "" /\ trace[r] = <<>>
            \/ keyword # "" /\ trace[r] = <<"get_ranked", "get_world_tour", "write">>

\* C9: a record with a missing or null field never makes a display routine fail:
\* no run ends by an exception.
C9_DisplayNeverFails == \A r \in Runs : pc[r] # "crashed"

(***************************************************************************)
(* Claims about fetcher runs side by side.                                 *)
(***************************************************************************)
\* The run has taken its file name.
Named(r) == pc[r] = "write" \/ WritesOf(r) > 0
\* The one-second period a clock reading lies in.
Second(now) == now \div TicksPerSecond

\* C4, as stated: two runs that did not start within the same second take
\* different file names.
C4_DistinctStartsDistinctFiles ==
    \A a, b \in Runs :
        (a # b /\ Named(a) /\ Named(b) /\ Second(started[a]) # Second(started[b]))
            => json_filename(a) # json_filename(b)

\* C4, amended: two writes by runs that read the clock for the file name (line 94)
\* in different seconds go to different files, so neither overwrites the other;
\* and no run writes twice.
C4_DistinctSaveSecondsDistinctFiles ==
    \A i, j \in 1..Len(written) :
        i # j =>
            /\ written[i][2] # written[j][2]
            /\ Second(named_at[written[i][2]]) # Second(named_at[written[j][2]])
                  => written[i][1] # written[j][1]

\* Two runs have saved in different seconds, and the folder holds a file of each.
C4_Witness ==
    \E a, b \in Runs :
        /\ a # b
        /\ pc[a] = "done" /\ pc[b] = "done"
        /\ keyword # ""
        /\ Second(named_at[a]) # Second(named_at[b])
        /\ {json_filename(a), json_filename(b)} \subseteq DOMAIN disk
        /\ Cardinality(DOMAIN disk) >= 2

(***************************************************************************)
(* Specifications of the analyzer.                                         *)
(***************************************************************************)
\* The files that fail to parse.
Broken(folder) == {n \in DOMAIN folder : ~JsonLoad(folder[n]).ok}

\* The user deletes the files the analyzer warned about and runs it again.
RemoveBroken ==
    /\ apc = "done"
    /\ earlier = <<>>
    /\ Broken(disk) # {}
    /\ disk' = [n \in DOMAIN disk \ Broken(disk) |-> disk[n]]
    /\ earlier' = <<[all_data |-> all_data, rows |-> rows,
                     activity_periods |-> activity_periods, report |-> report,
                     warnings |-> warnings, broken |-> Broken(disk)]>>
    /\ apc' = "start"
    /\ files' = <<>>
    /\ fidx' = 1
    /\ all_data' = <<>>
    /\ warnings' = <<>>
    /\ prev_data' = None
    /\ didx' = 1
    /\ rows' = <<>>
    /\ activity_periods' = <<>>
    /\ report' = NoReport
    /\ UNCHANGED <<keyword, api, clock, pc, started, ranked_data, world_tour_data, named_at,
                   trace, written>>

\* analyze_activity() is about to run.
AnalyzerInit ==
    /\ apc = "start"
    /\ files = <<>>
    /\ fidx = 1
    /\ all_data = <<>>
    /\ warnings = <<>>
    /\ prev_data = None
    /\ didx = 1
    /\ rows = <<>>
    /\ activity_periods = <<>>
    /\ report = NoReport
    /\ earlier = <<>>

\* No fetcher runs; the folder holds up to MaxFiles files with texts of `texts`.
FolderInit(texts) ==
    /\ keyword = "sangwoo"
    /\ api = "any"
    /\ clock = 0
    /\ pc = [r \in Runs |-> "off"]
    /\ started = [r \in Runs |-> 0]
    /\ ranked_data = [r \in Runs |-> None]
    /\ world_tour_data = [r \in Runs |-> None]
    /\ named_at = [r \in Runs |-> 0]
    /\ trace = [r \in Runs |-> <<>>]
    /\ disk \in UNION {[1..n -> texts] : n \in 0..MaxFiles}
    /\ written = <<>>

\* Snapshots as the fetcher writes them: the ranked fetch failed or matched, the
\* world tour fetch matched.
Ranked(score) == Response(<<RankedPlayer(12, JInt(0), JInt(score))>>)
WorldTour(cash) == Response(<<WorldTourPlayer(3, JInt(cash))>>)
WholeSnapshots ==
    {JsonDump(result_data(r, w, "sangwoo", now)) :
        r \in {None, Ranked(1000), Ranked(1200)},
        w \in {WorldTour(0), WorldTour(500)},
        now \in {1, 2}}

\* Snapshots with a section missing, null or without a match, and a file cut short.
PartSnapshot(r, w, now) == result_data(r, w, "sangwoo", now)
PartSnapshots ==
    {JsonDump(d) :
        d \in UNION {{Without(Without(PartSnapshot(None, None, now), "ranked_leaderboard"),
                              "world_tour"),
                      PartSnapshot(None, WorldTour(500), now),
                      PartSnapshot(Response(<<>>), Response(<<>>), now),
                      PartSnapshot(Ranked(1000), None, now),
                      PartSnapshot(Ranked(1200), WorldTour(500), now)} : now \in {1, 2}}}
CutShort(text) == SubSeq(text, 1, Len(text) - 1)
BrokenTexts == {CutShort(JsonDump(PartSnapshot(Ranked(1000), WorldTour(500), 1)))}

\* The analyzer over a folder of whole snapshots.
InitAnalyzer == FolderInit(WholeSnapshots) /\ AnalyzerInit
NextAnalyzer == AnalyzerStep
SpecAnalyzer == InitAnalyzer /\ [][NextAnalyzer]_vars

\* The analyzer over a folder of partial snapshots and broken files, then again
\* with the broken files removed.
InitBrokenFiles == FolderInit(PartSnapshots \cup BrokenTexts) /\ AnalyzerInit
NextBrokenFiles == AnalyzerStep \/ RemoveBroken
SpecBrokenFiles == InitBrokenFiles /\ [][NextBrokenFiles]_vars

\* The round trip: one run of main.py against a service that answers with matches,
\* and the analyzer loading the folder at any moment.
InitRoundTrip == FetcherInit({1}, "matching") /\ AnalyzerInit
NextRoundTrip == Tick \/ FetcherStep(1) \/ Discover \/ LoadNext
SpecRoundTrip == InitRoundTrip /\ [][NextRoundTrip]_vars

(***************************************************************************)
(* Claims about the analyzer.                                              *)
(***************************************************************************)
\* The sorted records the scan loop walks, by position.
Score(i) == all_data[i].v["rankScore"]
Cash(i) == all_data[i].v["cashouts"]
Stamp(i) == all_data[i].v["timestamp"]
ScoreDiff(i) == IF Score(i) # None /\ Score(i - 1) # None THEN Score(i).v - Score(i - 1).v ELSE 0
CashDiff(i) == IF Cash(i) # None /\ Cash(i - 1) # None THEN Cash(i).v - Cash(i - 1).v ELSE 0
ActivePair(i) == ScoreDiff(i) # 0 \/ CashDiff(i) # 0
\* The sessions of the pairs (i-1, i) for i <= k, in order.
RECURSIVE SessionsUpTo(_)
SessionsUpTo(k) ==
    IF k < 2 THEN <<>>
    ELSE SessionsUpTo(k - 1) \o
         (IF ActivePair(k)
          THEN <<[start |-> Stamp(k - 1), end |-> Stamp(k),
                  score_change |-> ScoreDiff(k), cashout_change |-> CashDiff(k)]>>
          ELSE <<>>)

\* C1: the first record is "first observation" and opens no session; record i >= 2
\* is an active session iff its rankScore or its cashouts differs from record i-1's
\* (a difference taken as 0 unless both sides are non-null), else "no change"; the
\* sessions recorded are exactly the active pairs, each with the two timestamps and
\* the two deltas, so the number reported is the number of active pairs.
C1_SessionsAreTheActivePairs ==
    /\ \A i \in 1..Len(rows) :
          rows[i].status = IF i = 1 THEN "[START] First"
                           ELSE IF ActivePair(i) THEN "[ACTIVE] Playing"
                           ELSE "[--] No change"
    /\ activity_periods = SessionsUpTo(Len(rows))
    /\ report.printed =>
          report.detected = Cardinality({i \in 2..Len(all_data) : ActivePair(i)})

\* The example of the specification: scores 1000, 1000, 1200 and cashouts 0, 0, 0
\* give no change, then one session of +200.
C1_Witness ==
    /\ report.printed
    /\ Len(rows) = 3
    /\ <<Score(1), Score(2), Score(3)>> = <<JInt(1000), JInt(1000), JInt(1200)>>
    /\ <<Cash(1), Cash(2), Cash(3)>> = <<JInt(0), JInt(0), JInt(0)>>
    /\ <<rows[1].status, rows[2].status, rows[3].status>>
          = <<"[START] First", "[--] No change", "[ACTIVE] Playing">>
    /\ Len(activity_periods) = 1
    /\ activity_periods[1].score_change = 200

\* C6: in the summary, when the first and the last record both carry a rankScore
\* (cashouts), the overall line of that quantity is printed with last - first.
C6_OverallLines ==
    report.printed =>
        /\ (Score(1) # None /\ Score(Len(all_data)) # None)
              => report.overall_rankScore = <<Score(Len(all_data)).v - Score(1).v>>
        /\ (Cash(1) # None /\ Cash(Len(all_data)) # None)
              => report.overall_cashouts = <<Cash(Len(all_data)).v - Cash(1).v>>

\* The total line of the summary; no session, no line, and a sum of 0.
PrintedTotal(total) == IF total = <<>> THEN 0 ELSE total[1]

\* C10: when every record carries a rankScore, the total rankScore change over the
\* sessions is the last record's rankScore minus the first's; likewise for cashouts.
C10_TotalsTelescope ==
    report.printed =>
        /\ (\A i \in 1..Len(all_data) : Score(i) # None)
              => PrintedTotal(report.total_score_change)
                    = Score(Len(all_data)).v - Score(1).v
        /\ (\A i \in 1..Len(all_data) : Cash(i) # None)
              => PrintedTotal(report.total_cashout_change)
                    = Cash(Len(all_data)).v - Cash(1).v

\* Three records with a rankScore each, two sessions, the rankScore going up and
\* coming back.
C10_Witness ==
    /\ report.printed
    /\ Len(all_data) = 3
    /\ \A i \in 1..3 : Score(i) # None /\ Cash(i) # None
    /\ Len(activity_periods) = 2
    /\ activity_periods[1].score_change = 200
    /\ activity_periods[2].score_change = 0 - 200
    /\ activity_periods[2].cashout_change # 0

(***************************************************************************)
(* Claims about broken files and partial snapshots.                        *)
(***************************************************************************)
\* The load loop has gone through every file and all_data is sorted; the scan has
\* not begun, or analyze_activity returned for want of data.
Loaded == apc \in {"scan", "done"} /\ fidx > Len(files) /\ didx = 1

\* C3: every file that fails to parse is warned about and left out, the run goes
\* on, and it prints for the other files what a run over the folder without the
\* failing files prints: the same timeline, rows, sessions and summary.
C3_BrokenFilesLeftOut ==
    /\ apc # "crashed"
    /\ Loaded => warnings = SortedNames(Broken(disk))
    /\ (earlier # <<>> /\ apc = "done") =>
          /\ earlier[1].warnings = SortedNames(earlier[1].broken)
          /\ earlier[1].all_data = all_data
          /\ earlier[1].rows = rows
          /\ earlier[1].activity_periods = activity_periods
          /\ earlier[1].report = report

\* A folder with a broken file between good ones was analyzed, with a session
\* found, then analyzed again without the broken file.
C3_Witness ==
    /\ earlier # <<>>
    /\ apc = "done"
    /\ report.printed
    /\ earlier[1].broken = {2}
    /\ Len(all_data) = 2
    /\ Len(activity_periods) = 1

\* The section of a snapshot is missing, null, or has an empty data array.
NoMatch(doc, section) ==
    IF section \notin DOMAIN doc.v THEN TRUE
    ELSE IF doc.v[section] = None THEN TRUE
    ELSE doc.v[section].v["data"].v = <<>>
FileOf(i) == JsonLoad(disk[all_data[i].v["filename"].v]).val

\* C7: a snapshot whose ranked_leaderboard (world_tour) is missing, null or without
\* a match gives null rankScore, rank and playerName (cashouts and worldTourRank);
\* the analyzer is at one of its steps or has returned, never stopped by an
\* exception; and a difference with a null side is taken as zero.
C7_PartialSnapshotsTolerated ==
    /\ apc \in {"start", "load", "scan", "done"}
    /\ Loaded => \A i \in 1..Len(all_data) :
          \E doc \in {FileOf(i)} :
              /\ NoMatch(doc, "ranked_leaderboard") =>
                    /\ all_data[i].v["rankScore"] = None
                    /\ all_data[i].v["rank"] = None
                    /\ all_data[i].v["playerName"] = None
              /\ NoMatch(doc, "world_tour") =>
                    /\ all_data[i].v["cashouts"] = None
                    /\ all_data[i].v["worldTourRank"] = None
    /\ \A i \in 2..Len(rows) :
          /\ (Score(i) = None \/ Score(i - 1) = None) => rows[i].score_change = <<>>
          /\ (Cash(i) = None \/ Cash(i - 1) = None) => rows[i].cashout_change = <<>>
          /\ ((Score(i) = None \/ Score(i - 1) = None) /\ (Cash(i) = None \/ Cash(i - 1) = None))
                => rows[i].status = "[--] No change"

\* The analyzer went through a snapshot without a match between two with one, and
\* printed its summary.
C7_Witness ==
    /\ report.printed
    /\ Len(all_data) = 3
    /\ Score(1) = JInt(1000) /\ Score(2) = None /\ Score(3) = JInt(1200)
    /\ Cash(2) = None
    /\ Get(FileOf(2), "ranked_leaderboard", None) = Response(<<>>)
    /\ rows[3].status = "[--] No change"

(***************************************************************************)
(* The round trip.                                                         *)
(***************************************************************************)
\* The run that wrote the file record i was loaded from.
WriterOf(i) == CHOOSE r \in Runs : <<all_data[i].v["filename"].v, r>> \in Range(written)
RankedFirst(r) == ranked_data[r].v["data"].v[1]
WorldTourFirst(r) == world_tour_data[r].v["data"].v[1]

\* C5: what load_result_file and extract_player_data give for a file written by
\* save_results_to_file from two answers with a match: the timestamp written, the
\* rankScore and rank of the first ranked entry, the cashouts and rank of the first
\* world tour entry.
C5_RoundTrip ==
    \A i \in 1..Len(all_data) :
        \E r \in {WriterOf(i)} :
            /\ all_data[i].v["timestamp"].v \in {isoformat(now) : now \in named_at[r]..clock}
            /\ all_data[i].v["rankScore"] = RankedFirst(r).v["rankScore"]
            /\ all_data[i].v["rank"] = RankedFirst(r).v["rank"]
            /\ all_data[i].v["cashouts"] = WorldTourFirst(r).v["cashouts"]
            /\ all_data[i].v["worldTourRank"] = WorldTourFirst(r).v["rank"]

\* A snapshot written late in a second was loaded back: rankScore 1200 at rank 1,
\* cashouts 1,500,000 at rank 250.
C5_Witness ==
    /\ Len(all_data) = 1
    /\ all_data[1].v["timestamp"] = JStr(isoformat(1))
    /\ all_data[1].v["rankScore"] = JInt(1200)
    /\ all_data[1].v["rank"] = JInt(1)
    /\ all_data[1].v["cashouts"] = JInt(1500000)
    /\ all_data[1].v["worldTourRank"] = JInt(250)

====
